---- MODULE Spec2Model ----
(***************************************************************************)
(* A model of the character-range package:                                 *)
(*   character_and_byte_map.py   Interval, IndexMap                        *)
(*   string_and_bytes_range.py   _IncrementableIndexCollection, _Range     *)
(*                                                                         *)
(* A symbol (a one-character str or a one-byte bytes object) is modelled   *)
(* by its codepoint, a natural number; a str or bytes value is the         *)
(* sequence of its codepoints.  Python's native ordering of two such       *)
(* values is the lexicographic ordering of these sequences.                *)
(***************************************************************************)
EXTENDS Integers, Sequences, FiniteSets, TLC

\* Bounds of the model.
MaxCode == 2        \* symbols offered as inputs are the codepoints 0..MaxCode
MaxIntervals == 2   \* longest interval list offered to the IndexMap constructor
MaxLen == 2         \* longest endpoint / initial digit list offered as an input
MaxBase == 3        \* largest base offered to the counter constructor
MaxDigits == 3      \* increments are offered while the result has at most this many digits

Codepoints == 0..MaxCode

\* The absent lookup function (Python's None).
None == "None"

(***************************************************************************)
(* Generic helpers                                                         *)
(***************************************************************************)

Max(a, b) == IF a >= b THEN a ELSE b

Min(a, b) == IF a <= b THEN a ELSE b

\* list[::-1], reversed()
Reverse(s) == [i \in 1..Len(s) |-> s[Len(s) + 1 - i]]

RECURSIVE Pow(_, _)
\* base ** width
Pow(b, n) == IF n = 0 THEN 1 ELSE b * Pow(b, n - 1)

RECURSIVE TupleLtFrom(_, _, _)
TupleLtFrom(a, b, i) ==
    IF i > Len(a) THEN i <= Len(b)
    ELSE IF i > Len(b) THEN FALSE
    ELSE IF a[i] < b[i] THEN TRUE
    ELSE IF a[i] > b[i] THEN FALSE
    ELSE TupleLtFrom(a, b, i + 1)

\* Python's native "<" on two tuples of ints, two str or two bytes values:
\* lexicographic, a proper prefix being smaller.
TupleLt(a, b) == TupleLtFrom(a, b, 1)

\* dict[key] = value
Put(f, k, v) == (k :> v) @@ f

\* All sequences over S of length n..m
SeqsOf(S, n, m) == UNION {[1..k -> S] : k \in n..m}

(***************************************************************************)
(* Interval                                                                *)
(***************************************************************************)

\* An argument that is not one symbol of the kind asked for: a str of two
\* characters, a symbol of the other kind.
NotAChar == -1

\* _is_char_of_type(value, expected_type) for an argument
is_char_of_type(c) == c # NotAChar

Kinds == {"str", "bytes"}

\* CharacterInterval(chr(s), chr(e)) / ByteInterval(bytes([s]), bytes([e]))
MkInterval(k, s, e) == [kind |-> k, start |-> s, end |-> e]

\* The intervals Interval._validate accepts: start <= end.
Intervals ==
    {MkInterval(k, se[1], se[2]) :
        k \in Kinds, se \in {p \in Codepoints \X Codepoints : p[1] <= p[2]}}

\* Interval.to_codepoint_range / Interval.__len__
interval_len(iv) == Max(0, iv.end + 1 - iv.start)

\* CharacterInterval.__iter__ / ByteInterval.__iter__ consumed to the end:
\* the symbols yielded, in order
interval_iter(iv) == [i \in 1..interval_len(iv) |-> iv.start + i - 1]

\* next() on the generator g of CharacterInterval.__iter__ /
\* ByteInterval.__iter__: the next codepoint of to_codepoint_range() is
\* yielded, or the range is used up and the generator ends
interval_next(iv, g) ==
    IF Len(g.out) < interval_len(iv)
    THEN [pc |-> "yielded", out |-> Append(g.out, iv.start + Len(g.out))]
    ELSE [g EXCEPT !.pc = "done"]

\* Interval._validate for endpoints that are single symbols of the kind:
\* the exception raised, or "ok"
interval_validate(k, s, e) ==
    IF s > e THEN "InvalidIntervalDirection" ELSE "ok"

\* __getitem__ counting a negative index from the end, as a list does
interval_getitem_from_end(iv, i) ==
    IF 0 <= i /\ i < interval_len(iv)
        THEN [status |-> "ok", value |-> iv.start + i]
    ELSE IF -interval_len(iv) <= i /\ i < 0
        THEN [status |-> "ok", value |-> iv.start + interval_len(iv) + i]
    ELSE [status |-> "IndexError", value |-> -1]

\* CharacterInterval.__getitem__ / ByteInterval.__getitem__ for an int
interval_getitem(iv, i) ==
    IF ~(0 <= i /\ i < interval_len(iv))
        THEN [status |-> "IndexError", value |-> -1]
    ELSE [status |-> "ok", value |-> iv.start + i]

\* Interval.__contains__ for a symbol of the kind of the interval, or for
\* an item that is not one
interval_contains(iv, c) ==
    is_char_of_type(c) /\ iv.start <= c /\ c <= iv.end

\* intersects with a strict test: intervals that share only an endpoint pass
intersects_strict(a, b) == Max(a.start, b.start) < Min(a.end, b.end)

\* Interval.__and__ / Interval.intersects (same-kind operands)
intersects(a, b) == Max(a.start, b.start) <= Min(a.end, b.end)

\* a.intersects(b), that is a & b: __and__ returns NotImplemented for an
\* operand that is not of the class of a, and & then raises TypeError
interval_and(a, b) ==
    IF a.kind # b.kind THEN [status |-> "TypeError", value |-> FALSE]
    ELSE [status |-> "ok", value |-> intersects(a, b)]

(***************************************************************************)
(* IndexMap                                                                *)
(*                                                                         *)
(* An IndexMap is a record                                                 *)
(*   status      "ok", or the exception __init__ raised                    *)
(*   intervals   _intervals                                                *)
(*   lc, li      _searchers.lookup_char / lookup_index (None when omitted) *)
(*   c2i, i2c    _char_to_index / _index_to_char                           *)
(*   populated   _maps_populated                                           *)
(***************************************************************************)

\* The 0x100 of the lookup functions of CharacterMap.NON_ASCII, the
\* codepoint of its first symbol.
RankOffset == 256

\* The 0xFF of _ascii_index_from_char_or_byte, the highest codepoint it
\* accepts.
AsciiMax == 255

\* The lookup functions of the model. A name stands for one function
\* object, the same whichever map it is given to, but for the names of
\* PartialCopies: such a name stands for any copy of a functools.partial,
\* and every copy is an object of its own, held by the one map made with it.
\*   "ord" / "chr"    the builtins, the pair of CharacterMap.UNICODE; ord
\*                    takes a str or a bytes of length 1, chr returns a str
\*   "ascii"          _ascii_index_from_char_or_byte, the lookup_char of
\*                    CharacterMap.ASCII and ByteMap.ASCII: the codepoint,
\*                    ValueError raised for one above AsciiMax
\*   "rank" / "rank"  the pair of CharacterMap.NON_ASCII:
\*                    lambda char: ord(char) - RankOffset and
\*                    lambda index: chr(index + RankOffset)
\*   "char"           _ascii_char_from_index, the lookup_index of
\*                    CharacterMap.ASCII: a functools.partial object,
\*                    str(chr(index))
\*   "byte"           _ascii_byte_from_index, the lookup_index of
\*                    ByteMap.ASCII: a functools.partial object,
\*                    index.to_bytes(1, 'big'), a bytes
\*   "char_copy", "byte_copy"
\*                    a copy.deepcopy of "char", of "byte" or of such a copy
\*   "repr"           a lookup_char whose result is a str, never an int
\*   "int"            a lookup_index whose result is the index itself, an
\*                    int and never a symbol

\* lookup_char(char) raises: the exception, or "ok" when it returns
lookup_char_raises(name, c) ==
    IF name = "ascii" /\ ~(0 <= c /\ c <= AsciiMax) THEN "ValueError" ELSE "ok"

\* lookup_char(char) when it returns: the integer of the result (of "repr",
\* a str, the codepoint, which no caller reads)
LookupChar(name, c) ==
    IF name = "rank" THEN c - RankOffset ELSE c

\* isinstance(lookup_char(char), int)
lookup_char_returns_int(name) == name # "repr"

\* lookup_index(index): the codepoint of the result (of "int", not a
\* symbol, the index). No function here raises on an index of the map: chr
\* takes every index up to 0x10FFFF and to_bytes every index up to 255.
LookupIndex(name, i) ==
    IF name = "rank" THEN i + RankOffset ELSE i

\* _is_char_of_type(lookup_index(index), element_type): the result is a str
\* of length 1 on a map of str, a bytes of length 1 on a map of bytes
lookup_index_returns_char(name, kind) ==
    CASE name \in {"chr", "rank", "char", "char_copy"} -> kind = "str"
      [] name \in {"byte", "byte_copy"} -> kind = "bytes"
      [] OTHER -> FALSE

\* The copies of the functools.partial objects.
PartialCopies == {"char_copy", "byte_copy"}

\* copy.deepcopy of a lookup function, as dataclasses.astuple applies it to
\* the fields of _searchers: None, a builtin and a function are returned as
\* they are, a functools.partial is copied into a new object.
deepcopy_lookup(name) ==
    CASE name \in {"char", "char_copy"} -> "char_copy"
      [] name \in {"byte", "byte_copy"} -> "byte_copy"
      [] OTHER -> name

\* a == b for two lookup functions held by two maps: the same object
\* (functions and partials compare by identity)
lookup_eq(a, b) == a = b /\ a \notin PartialCopies

\* The function a lookup function computes: of a copy, that of its original.
lookup_computes(name) ==
    CASE name = "char_copy" -> "char"
      [] name = "byte_copy" -> "byte"
      [] OTHER -> name

\* _Searchers.only_one_given
only_one_given(lc, li) == (lc = None) # (li = None)

\* _Searchers.both_given
both_given(lc, li) == lc # None /\ li # None

\* IndexMap._intervals_must_have_same_type: TRUE when the check passes
intervals_must_have_same_type(ivs) ==
    Cardinality({ivs[i].kind : i \in DOMAIN ivs}) <= 1

RECURSIVE MustNotOverlapFrom(_, _)
MustNotOverlapFrom(ivs, n) ==
    IF n > Len(ivs) THEN TRUE
    ELSE IF \E j \in 1..(n - 1) : intersects(ivs[n], ivs[j]) THEN FALSE
    ELSE MustNotOverlapFrom(ivs, n + 1)

\* IndexMap._intervals_must_not_overlap: TRUE when the check passes
intervals_must_not_overlap(ivs) == MustNotOverlapFrom(ivs, 1)

RECURSIVE ChainLastFirst(_)
\* The intervals chained from the last of the list to the first
ChainLastFirst(ivs) ==
    IF ivs = <<>> THEN <<>>
    ELSE ChainLastFirst(Tail(ivs)) \o interval_iter(Head(ivs))

RECURSIVE Chain(_)
\* chain.from_iterable(self._intervals)
Chain(ivs) ==
    IF ivs = <<>> THEN <<>> ELSE interval_iter(Head(ivs)) \o Chain(Tail(ivs))

RECURSIVE PopulateFrom(_, _, _, _)
PopulateFrom(chars, n, c2i, i2c) ==
    IF n > Len(chars) THEN [ok |-> TRUE, c2i |-> c2i, i2c |-> i2c]
    ELSE IF chars[n] \in DOMAIN c2i THEN [ok |-> FALSE, c2i |-> c2i, i2c |-> i2c]
    ELSE PopulateFrom(chars, n + 1,
                      Put(c2i, chars[n], n - 1), Put(i2c, n - 1, chars[n]))

\* _populate_maps numbering the backward table from 1 instead of 0
populate_maps_shifted(ivs) ==
    LET p == PopulateFrom(Chain(ivs), 1, <<>>, <<>>)
    IN  [p EXCEPT !.i2c = [i \in {j + 1 : j \in DOMAIN p.i2c} |-> p.i2c[i - 1]]]

\* IndexMap._populate_maps: ok is FALSE when OverlappingIntervals is raised
populate_maps(ivs) == PopulateFrom(Chain(ivs), 1, <<>>, <<>>)

MapRecord(st, ivs, lc, li, c2i, i2c, pop) ==
    [status |-> st, intervals |-> ivs, lc |-> lc, li |-> li,
     c2i |-> c2i, i2c |-> i2c, populated |-> pop]

\* The object of a constructor call that raised `st`.
FailedMap(st, ivs, lc, li) == MapRecord(st, ivs, lc, li, <<>>, <<>>, FALSE)

\* No map constructed yet.
NoMap == FailedMap("none", <<>>, None, None)

\* IndexMap.__init__
IndexMapInit(ivs, lc, li) ==
    IF only_one_given(lc, li) THEN FailedMap("ConfigurationConflict", ivs, lc, li)
    ELSE IF ivs = <<>> THEN FailedMap("NoIntervals", ivs, lc, li)
    ELSE IF ~intervals_must_have_same_type(ivs)
        THEN FailedMap("ConfigurationConflict", ivs, lc, li)
    ELSE IF both_given(lc, li)
        THEN IF intervals_must_not_overlap(ivs)
             THEN MapRecord("ok", ivs, lc, li, <<>>, <<>>, FALSE)
             ELSE FailedMap("OverlappingIntervals", ivs, lc, li)
    ELSE LET p == populate_maps(ivs)
         IN  IF p.ok THEN MapRecord("ok", ivs, lc, li, p.c2i, p.i2c, TRUE)
             ELSE FailedMap("OverlappingIntervals", ivs, lc, li)

RECURSIVE SumLens(_)
SumLens(ivs) ==
    IF ivs = <<>> THEN 0 ELSE interval_len(Head(ivs)) + SumLens(Tail(ivs))

\* IndexMap.__len__ (functools.cache keys it by the interval tuple, on which
\* the value alone depends)
map_len(m) ==
    IF m.populated THEN Cardinality(DOMAIN m.c2i) ELSE SumLens(m.intervals)

\* IndexMap.__contains__ for an int item
contains_index(m, i) == 0 <= i /\ i < map_len(m)

\* The outcome of a lookup: the exception or "ok", the value returned, the
\* map after the call, and whether the lookup function was invoked.
Outcome(st, v, m, inv) == [status |-> st, value |-> v, map |-> m, invoked |-> inv]

\* IndexMap.element_type: that of the first interval
element_type(m) == m.intervals[1].kind

\* IndexMap._not_a_char_exception
not_a_char_exception(m) ==
    IF element_type(m) = "str" THEN "NotACharacter" ELSE "NotAByte"

\* _get_index_given_char returning a validated result it does not store
get_index_given_char_uncached(m, c) ==
    IF ~is_char_of_type(c) THEN Outcome(not_a_char_exception(m), -1, m, FALSE)
    ELSE IF c \in DOMAIN m.c2i THEN Outcome("ok", m.c2i[c], m, FALSE)
    ELSE IF m.lc = None THEN Outcome("LookupError", -1, m, FALSE)
    ELSE IF lookup_char_raises(m.lc, c) # "ok"
        THEN Outcome(lookup_char_raises(m.lc, c), -1, m, TRUE)
    ELSE LET result == LookupChar(m.lc, c)
         IN  IF ~lookup_char_returns_int(m.lc) \/ ~contains_index(m, result)
             THEN Outcome("InvalidIndex", -1, m, TRUE)
             ELSE Outcome("ok", result, m, TRUE)

\* IndexMap._get_index_given_char
get_index_given_char(m, c) ==
    IF ~is_char_of_type(c) THEN Outcome(not_a_char_exception(m), -1, m, FALSE)
    ELSE IF c \in DOMAIN m.c2i THEN Outcome("ok", m.c2i[c], m, FALSE)
    ELSE IF m.lc = None THEN Outcome("LookupError", -1, m, FALSE)
    ELSE IF lookup_char_raises(m.lc, c) # "ok"
        THEN Outcome(lookup_char_raises(m.lc, c), -1, m, TRUE)
    ELSE LET result == LookupChar(m.lc, c)
         IN  IF ~lookup_char_returns_int(m.lc) \/ ~contains_index(m, result)
             THEN Outcome("InvalidIndex", -1, m, TRUE)
             ELSE Outcome("ok", result,
                          [m EXCEPT !.c2i = Put(m.c2i, c, result)], TRUE)

\* _get_char_given_index storing the result before it is validated
get_char_given_index_store_first(m, i) ==
    IF ~contains_index(m, i) THEN Outcome("IndexError", -1, m, FALSE)
    ELSE IF i \in DOMAIN m.i2c THEN Outcome("ok", m.i2c[i], m, FALSE)
    ELSE IF m.li = None THEN Outcome("AssertionError", -1, m, FALSE)
    ELSE LET result == LookupIndex(m.li, i)
             stored == [m EXCEPT !.i2c = Put(m.i2c, i, result)]
         IN  IF ~lookup_index_returns_char(m.li, element_type(m))
             THEN Outcome("InvalidChar", -1, stored, TRUE)
             ELSE Outcome("ok", result, stored, TRUE)

\* IndexMap._get_char_given_index
get_char_given_index(m, i) ==
    IF ~contains_index(m, i) THEN Outcome("IndexError", -1, m, FALSE)
    ELSE IF i \in DOMAIN m.i2c THEN Outcome("ok", m.i2c[i], m, FALSE)
    ELSE IF m.li = None THEN Outcome("AssertionError", -1, m, FALSE)
    ELSE LET result == LookupIndex(m.li, i)
         IN  IF ~lookup_index_returns_char(m.li, element_type(m))
             THEN Outcome("InvalidChar", -1, m, TRUE)
             ELSE Outcome("ok", result,
                          [m EXCEPT !.i2c = Put(m.i2c, i, result)], TRUE)

\* IndexMap.__contains__ for a symbol: the answer and the map after the call
contains_char(m, c) ==
    LET r == get_index_given_char(m, c)
    IN  [ok |-> r.status = "ok", map |-> r.map]

\* An operand of +: a map, another object than the left operand, or an
\* interval.
MapOperand(m) == [is |-> "map", map |-> m, interval |-> MkInterval("str", 0, 0)]

IntervalOperand(iv) == [is |-> "interval", map |-> NoMap, interval |-> iv]

\* other.element_type
operand_kind(o) ==
    IF o.is = "interval" THEN o.interval.kind ELSE o.map.intervals[1].kind

\* other._intervals, tuple([other])
operand_intervals(o) ==
    IF o.is = "interval" THEN <<o.interval>> ELSE o.map.intervals

\* self._searchers == other._searchers, the dataclass comparing the two
\* fields
searchers_eq(m, n) == lookup_eq(m.lc, n.lc) /\ lookup_eq(m.li, n.li)

\* IndexMap.__add__: the map returned, or the object of the call that
\* raised. The lookup functions of the new map are those of
\* astuple(self._searchers), deep copies.
map_add(m, o) ==
    IF operand_kind(o) # m.intervals[1].kind
        THEN FailedMap("ConfigurationConflict", m.intervals, m.lc, m.li)
    ELSE IF o.is = "interval"
        THEN IndexMapInit(m.intervals \o <<o.interval>>,
                          deepcopy_lookup(m.lc), deepcopy_lookup(m.li))
    ELSE IF ~searchers_eq(m, o.map)
        THEN FailedMap("ConfigurationConflict", m.intervals, m.lc, m.li)
    ELSE IndexMapInit(m.intervals \o o.map.intervals,
                      deepcopy_lookup(m.lc), deepcopy_lookup(m.li))

\* CharacterInterval.__add__ / ByteInterval.__add__: NotImplemented for an
\* operand that is no interval of the same class, which + turns into TypeError
interval_add(iv, o) ==
    IF o.is # "interval" \/ o.interval.kind # iv.kind
        THEN FailedMap("TypeError", <<iv>>, None, None)
    ELSE IndexMapInit(<<iv, o.interval>>, None, None)

(***************************************************************************)
(* _IncrementableIndexCollection                                           *)
(*                                                                         *)
(* A counter is a record [inv, base]: inv is _inverted_indices (the least  *)
(* significant index first), base is _base.                                *)
(***************************************************************************)

\* _IncrementableIndexCollection.__init__: the exception raised, or "ok"
counter_init_status(indices, base) ==
    IF indices = <<>> THEN "EmptyListOfIndices"
    ELSE IF base < 1 THEN "InvalidBase"
    ELSE "ok"

\* _IncrementableIndexCollection.__init__: the object
counter_init(indices, base) == [inv |-> Reverse(indices), base |-> base]

\* No counter constructed.
NoCounter == [inv |-> <<>>, base |-> 0]

RECURSIVE IndexFrom(_, _, _)
IndexFrom(inv, base, n) ==
    IF n > Len(inv) THEN 0
    ELSE inv[n] * Pow(base, n - 1) + IndexFrom(inv, base, n + 1)

\* _IncrementableIndexCollection.__index__
counter_index(k) == IndexFrom(k.inv, k.base, 1)

\* _IncrementableIndexCollection.__len__
counter_len(k) == Len(k.inv)

\* _IncrementableIndexCollection._indices / __iter__
counter_indices(k) == Reverse(k.inv)

\* __lt__ comparing the integral values alone, the lengths ignored
counter_lt_by_value(a, b) == counter_index(a) < counter_index(b)

\* _IncrementableIndexCollection.__lt__
counter_lt(a, b) ==
    IF counter_len(a) < counter_len(b) THEN TRUE
    ELSE counter_len(a) = counter_len(b)
         /\ TupleLt(counter_indices(a), counter_indices(b))

\* _IncrementableIndexCollection.__eq__
counter_eq(a, b) ==
    a.base = b.base /\ counter_indices(a) = counter_indices(b)

\* __le__ as functools.total_ordering derives it from __lt__ and __eq__
counter_le(a, b) == counter_lt(a, b) \/ counter_eq(a, b)

\* __gt__ as functools.total_ordering derives it from __lt__ and __eq__
counter_gt(a, b) == ~counter_lt(a, b) /\ ~counter_eq(a, b)

RECURSIVE IncrementFrom(_, _, _)
IncrementFrom(inv, base, n) ==
    IF n > Len(inv) THEN Append(inv, 0)
    ELSE IF inv[n] + 1 < base THEN [inv EXCEPT ![n] = inv[n] + 1]
    ELSE IncrementFrom([inv EXCEPT ![n] = 0], base, n + 1)

RECURSIVE IncrementCarryOneFrom(_, _, _)
IncrementCarryOneFrom(inv, base, n) ==
    IF n > Len(inv) THEN Append(inv, 1)
    ELSE IF inv[n] + 1 < base THEN [inv EXCEPT ![n] = inv[n] + 1]
    ELSE IncrementCarryOneFrom([inv EXCEPT ![n] = 0], base, n + 1)

\* increment carrying a 1 into the new index, as decimal counting does
increment_carry_one(k) ==
    [k EXCEPT !.inv = IncrementCarryOneFrom(k.inv, k.base, 1)]

RECURSIVE IncrementKeepFrom(_, _, _)
IncrementKeepFrom(inv, base, n) ==
    IF n > Len(inv) THEN Append(inv, 0)
    ELSE IF inv[n] + 1 < base THEN [inv EXCEPT ![n] = inv[n] + 1]
    ELSE IncrementKeepFrom([inv EXCEPT ![n] = inv[n] + 1], base, n + 1)

\* increment without the reset of an overflowed index to 0
increment_no_reset(k) ==
    [k EXCEPT !.inv = IncrementKeepFrom(k.inv, k.base, 1)]

\* increment of a fixed-width counter: the overflow of the last index wraps
\* to all zeros and appends nothing
increment_wrap(k) ==
    LET r == IncrementFrom(k.inv, k.base, 1)
    IN  [k EXCEPT !.inv = IF Len(r) > Len(k.inv) THEN SubSeq(r, 1, Len(k.inv)) ELSE r]

\* increment adding 1 to the last index with no test against the base
increment_unbounded(k) == [k EXCEPT !.inv[1] = @ + 1]

\* _IncrementableIndexCollection.increment
increment(k) == [k EXCEPT !.inv = IncrementFrom(k.inv, k.base, 1)]

(***************************************************************************)
(* _Range                                                                  *)
(*                                                                         *)
(* A range is a record [status, start, end]; its _map is the variable      *)
(* rmap, whose caches every lookup made through the range may fill.        *)
(***************************************************************************)

RECURSIVE AllInFrom(_, _, _)
AllInFrom(m, value, n) ==
    IF n > Len(value) THEN [ok |-> TRUE, map |-> m]
    ELSE LET r == contains_char(m, value[n])
         IN  IF r.ok THEN AllInFrom(r.map, value, n + 1)
             ELSE [ok |-> FALSE, map |-> r.map]

\* _Range._is_valid_endpoint: the answer and the map after the call
is_valid_endpoint(m, value) ==
    IF Len(value) > 0 THEN AllInFrom(m, value, 1) ELSE [ok |-> FALSE, map |-> m]

RECURSIVE IndicesFrom(_, _, _, _)
IndicesFrom(m, value, n, acc) ==
    IF n > Len(value) THEN [status |-> "ok", indices |-> acc, map |-> m]
    ELSE LET r == get_index_given_char(m, value[n])
         IN  IF r.status = "ok"
             THEN IndicesFrom(r.map, value, n + 1, Append(acc, r.value))
             ELSE [status |-> r.status, indices |-> acc, map |-> r.map]

\* _Range._make_collection: the counter and the map after the call
make_collection(m, value) ==
    LET r == IndicesFrom(m, value, 1, <<>>)
    IN  [status  |-> IF r.status = "ok"
                     THEN counter_init_status(r.indices, map_len(r.map))
                     ELSE r.status,
         counter |-> counter_init(r.indices, map_len(r.map)),
         map     |-> r.map]

RECURSIVE ElementFrom(_, _, _, _)
ElementFrom(m, indices, n, acc) ==
    IF n > Len(indices) THEN [status |-> "ok", value |-> acc, map |-> m]
    ELSE LET r == get_char_given_index(m, indices[n])
         IN  IF r.status = "ok"
             THEN ElementFrom(r.map, indices, n + 1, Append(acc, r.value))
             ELSE [status |-> r.status, value |-> acc, map |-> r.map]

\* StringRange._make_element / BytesRange._make_element
make_element(m, k) == ElementFrom(m, counter_indices(k), 1, <<>>)

\* The direction test of _Range.__init__, on native str / bytes ordering:
\* len(start) > len(end) or len(start) == len(end) and start > end
wrong_direction(start, end) ==
    Len(start) > Len(end) \/ (Len(start) = Len(end) /\ TupleLt(end, start))

\* _Range.__init__ testing the direction before the endpoints
range_init_direction_first(m, start, end) ==
    LET sv == is_valid_endpoint(m, start)
        ev == is_valid_endpoint(sv.map, end)
        st == IF wrong_direction(start, end) THEN "InvalidRangeDirection"
              ELSE IF ~sv.ok \/ ~ev.ok THEN "InvalidEndpoints"
              ELSE "ok"
    IN  [range |-> [status |-> st, start |-> start, end |-> end], map |-> ev.map]

\* _Range.__init__: the range and the map after the call
range_init(m, start, end) ==
    LET sv == is_valid_endpoint(m, start)
        ev == is_valid_endpoint(sv.map, end)
        st == IF ~sv.ok \/ ~ev.ok THEN "InvalidEndpoints"
              ELSE IF wrong_direction(start, end) THEN "InvalidRangeDirection"
              ELSE "ok"
    IN  [range |-> [status |-> st, start |-> start, end |-> end], map |-> ev.map]

\* No range constructed yet.
NoRange == [status |-> "none", start |-> <<>>, end |-> <<>>]

RECURSIVE SumPowers(_, _, _)
\* sum(base ** width for width in range(lo, hi))
SumPowers(base, lo, hi) ==
    IF lo >= hi THEN 0 ELSE Pow(base, lo) + SumPowers(base, lo + 1, hi)

\* __len__ summing over range(len(start) + 1, len(end))
range_len_from_next_width(m, r) ==
    LET base == map_len(m)
        cs == make_collection(m, r.start)
        ce == make_collection(cs.map, r.end)
    IN  [value |-> SumPowers(base, Len(r.start) + 1, Len(r.end))
                   + counter_index(ce.counter) - counter_index(cs.counter) + 1,
         map   |-> ce.map]

\* _Range.__len__: the value returned and the map after the call
range_len(m, r) ==
    LET base == map_len(m)
        from_len_start_up_to_len_end == SumPowers(base, Len(r.start), Len(r.end))
        cs == make_collection(m, r.start)
        ce == make_collection(cs.map, r.end)
    IN  [value |-> from_len_start_up_to_len_end
                   + counter_index(ce.counter) - counter_index(cs.counter) + 1,
         map   |-> ce.map]

\* The generator of _Range.__iter__ is a record
\*   pc       "none" (no generator), "created" (not started), "yielded"
\*            (suspended at the yield), "done" (exhausted) or "raised"
\*            (finished by an exception that next() let through)
\*   status   "ok", or the exception next() raised
\*   current  the cursor counter
\*   end      the counter of the end endpoint
\*   out      the elements yielded so far
NoIterator == [pc |-> "none", status |-> "ok", current |-> NoCounter,
               end |-> NoCounter, out |-> <<>>]

\* _Range.__iter__: calling it creates the generator and runs none of its body
range_iter == [NoIterator EXCEPT !.pc = "created"]

\* The loop of _Range.__iter__ from its test to the next yield (or its end)
iter_loop(m, g, current, end) ==
    IF counter_le(current, end)
    THEN LET e == make_element(m, current)
         IN  IF e.status = "ok"
             THEN [it  |-> [g EXCEPT !.pc = "yielded", !.current = current,
                                     !.end = end, !.out = Append(g.out, e.value)],
                   map |-> e.map]
             ELSE [it  |-> [g EXCEPT !.pc = "raised", !.status = e.status,
                                     !.current = current, !.end = end],
                   map |-> e.map]
    ELSE [it |-> [g EXCEPT !.pc = "done", !.current = current, !.end = end],
          map |-> m]

\* next() on the generator of _Range.__iter__
iter_next(m, r, g) ==
    IF g.pc = "created"
    THEN LET cs == make_collection(m, r.start)
             ce == make_collection(cs.map, r.end)
         IN  iter_loop(ce.map, g, cs.counter, ce.counter)
    ELSE iter_loop(m, g, increment(g.current), g.end)

(***************************************************************************)
(* State                                                                   *)
(***************************************************************************)

VARIABLES
    rmap,     \* the IndexMap a range is built on
    rng,      \* the _Range
    it,       \* the generator of one iteration of rng
    lenres,   \* the last result of len(rng)
    cnt_a,    \* an _IncrementableIndexCollection
    cnt_b,    \* a second one, to compare cnt_a with
    cnt_op,   \* the last counter operation and what it returned
    imap,     \* an IndexMap under direct use
    mcall,    \* the last lookup on imap and what it returned
    it2,      \* the generator of a second iteration of rng
    thr,      \* the threads calling symbol_to_index on rmap, each with its
              \* position in _get_index_given_char and its local variables
    ncalls,   \* how many times lookup_char was invoked, by symbol
    cmb_l,    \* the left operand of +
    cmb_r,    \* the right operand of +
    cmb_res,  \* what + returned
    ivl,      \* an Interval under direct use
    ivcall,   \* the last operation on ivl and what it returned
    ivgen,    \* the generator of one iteration of ivl
    ovl,      \* one list of intervals and the two maps constructed from
              \* it, without lookup functions and with them
    isect     \* the last intersects() between two intervals of the list

vars == <<rmap, rng, it, lenres, cnt_a, cnt_b, cnt_op, imap, mcall,
          it2, thr, ncalls, cmb_l, cmb_r, cmb_res, ivl, ivcall, ivgen, ovl, isect>>

range_vars == <<rmap, rng, it, lenres>>

counter_vars == <<cnt_a, cnt_b, cnt_op>>

map_vars == <<imap, mcall>>

race_vars == <<thr, ncalls>>

combine_vars == <<cmb_l, cmb_r, cmb_res>>

interval_vars == <<ivl, ivcall, ivgen>>

overlap_vars == <<ovl, isect>>

more_vars == <<it2, race_vars, combine_vars, interval_vars, overlap_vars>>

old_vars == <<range_vars, counter_vars, map_vars>>

Threads == 1..2

\* A thread that has not called: pc is its position in _get_index_given_char,
\* char the argument, result the local variable, status and value what the
\* call raised or returned.
NoThread == [pc |-> "idle", char |-> 0, result |-> 0, status |-> "ok", value |-> 0]

\* No operand of + chosen yet.
NoOperand == [is |-> "none", map |-> NoMap, interval |-> MkInterval("str", 0, 0)]

\* No interval constructed, no operation on it.
NoInterval == [status |-> "none", interval |-> MkInterval("str", 0, 0)]

NoIvCall == [op |-> "none", arg |-> 0, status |-> "ok", value |-> 0,
             found |-> FALSE]

\* No generator of CharacterInterval.__iter__ / ByteInterval.__iter__: pc is
\* "none", "created" (not started), "yielded" (suspended at the yield) or
\* "done" (exhausted), out the symbols yielded so far.
NoIvGen == [pc |-> "none", out |-> <<>>]

\* No list of intervals chosen, no map constructed from it.
NoOverlap == [status |-> "none", intervals |-> <<>>, eager |-> NoMap, lazy |-> NoMap]

\* No intersects() called: i and j are the positions of the two intervals
\* in the list, ab and ba the outcomes of a.intersects(b) and b.intersects(a).
NoIntersects == [called |-> FALSE, i |-> 0, j |-> 0,
                 ab |-> [status |-> "ok", value |-> FALSE],
                 ba |-> [status |-> "ok", value |-> FALSE]]

NoLen == [called |-> FALSE, value |-> 0]

NoOp == [op |-> "none", status |-> "ok", prev |-> NoCounter,
         lt |-> FALSE, eq |-> FALSE, le |-> FALSE, gt |-> FALSE]

NoCall == [op |-> "none", arg |-> 0, status |-> "ok", value |-> 0,
           invoked |-> FALSE]

Init ==
    /\ rmap = NoMap
    /\ rng = NoRange
    /\ it = NoIterator
    /\ lenres = NoLen
    /\ cnt_a = NoCounter
    /\ cnt_b = NoCounter
    /\ cnt_op = NoOp
    /\ imap = NoMap
    /\ mcall = NoCall
    /\ it2 = NoIterator
    /\ thr = [t \in Threads |-> NoThread]
    /\ ncalls = [c \in Codepoints |-> 0]
    /\ cmb_l = NoOperand
    /\ cmb_r = NoOperand
    /\ cmb_res = NoMap
    /\ ivl = NoInterval
    /\ ivcall = NoIvCall
    /\ ivgen = NoIvGen
    /\ ovl = NoOverlap
    /\ isect = NoIntersects

(***************************************************************************)
(* Ranges: a map is built, a range is constructed on it, then len() and    *)
(* one iteration are driven in any order.                                  *)
(***************************************************************************)

Str(s, e) == MkInterval("str", s, e)

\* CharacterMap.ASCII_DIGITS
AsciiDigits == [intervals |-> <<Str(48, 57)>>, lc |-> None, li |-> None]

\* The maps ranges are built on: eager maps of one interval, of one symbol,
\* of two intervals listed against and along codepoint order, a lazy map
\* with the lookups of CharacterMap.UNICODE, a lazy map whose lookup_index
\* returns no symbol, and CharacterMap.ASCII_DIGITS.
RangeMaps ==
    { [intervals |-> <<Str(0, 1)>>, lc |-> None, li |-> None],
      [intervals |-> <<Str(0, 0)>>, lc |-> None, li |-> None],
      [intervals |-> <<Str(1, 2), Str(0, 0)>>, lc |-> None, li |-> None],
      [intervals |-> <<Str(0, 0), Str(2, 2)>>, lc |-> None, li |-> None],
      [intervals |-> <<Str(0, 2)>>, lc |-> "ord", li |-> "chr"],
      [intervals |-> <<Str(0, 1)>>, lc |-> "ord", li |-> "int"],
      AsciiDigits }

\* The endpoints offered to the range constructor.
Endpoints == SeqsOf(Codepoints, 0, MaxLen)

\* StringRange('0', '19', CharacterMap.ASCII_DIGITS), the example of the
\* _Range docstring
DigitsStart == <<48>>

DigitsEnd == <<49, 57>>

MakeMap ==
    /\ rmap.status = "none"
    /\ \E s \in RangeMaps : rmap' = IndexMapInit(s.intervals, s.lc, s.li)
    /\ UNCHANGED <<more_vars, rng, it, lenres, counter_vars, map_vars>>

ConstructRange ==
    /\ rmap.status = "ok"
    /\ rng.status = "none"
    /\ \E se \in (Endpoints \X Endpoints) \cup {<<DigitsStart, DigitsEnd>>} :
          LET r == range_init(rmap, se[1], se[2])
          IN  /\ rng' = r.range
              /\ rmap' = r.map
    /\ UNCHANGED <<more_vars, it, lenres, counter_vars, map_vars>>

CallLen ==
    /\ rng.status = "ok"
    /\ ~lenres.called
    /\ LET r == range_len(rmap, rng)
       IN  /\ lenres' = [called |-> TRUE, value |-> r.value]
           /\ rmap' = r.map
    /\ UNCHANGED <<more_vars, rng, it, counter_vars, map_vars>>

Iterate ==
    /\ rng.status = "ok"
    /\ it.pc = "none"
    /\ it' = range_iter
    /\ UNCHANGED <<more_vars, rmap, rng, lenres, counter_vars, map_vars>>

IterNext ==
    /\ it.pc \in {"created", "yielded"}
    /\ LET r == iter_next(rmap, rng, it)
       IN  /\ it' = r.it
           /\ rmap' = r.map
    /\ UNCHANGED <<more_vars, rng, lenres, counter_vars, map_vars>>

Next == MakeMap \/ ConstructRange \/ CallLen \/ Iterate \/ IterNext

Spec == Init /\ [][Next]_vars

(***************************************************************************)
(* Counters: two counters are constructed from any indices; cnt_a is       *)
(* incremented and compared with cnt_b.                                    *)
(***************************************************************************)

\* The initial indices offered to the constructor, with any base: naturals
\* up to MaxBase, in [0, base) or not, which the constructor does not check.
DigitLists == SeqsOf(0..MaxBase, 0, MaxLen)

OpInit(st) == [NoOp EXCEPT !.op = "init", !.status = st]

CounterConstructA ==
    /\ cnt_a = NoCounter
    /\ \E base \in 0..MaxBase : \E digits \in DigitLists :
          LET st == counter_init_status(digits, base)
          IN  /\ cnt_a' = IF st = "ok" THEN counter_init(digits, base) ELSE cnt_a
              /\ cnt_op' = OpInit(st)
    /\ UNCHANGED <<more_vars, cnt_b, range_vars, map_vars>>

CounterConstructB ==
    /\ cnt_b = NoCounter
    /\ \E base \in 0..MaxBase : \E digits \in DigitLists :
          LET st == counter_init_status(digits, base)
          IN  /\ cnt_b' = IF st = "ok" THEN counter_init(digits, base) ELSE cnt_b
              /\ cnt_op' = OpInit(st)
    /\ UNCHANGED <<more_vars, cnt_a, range_vars, map_vars>>

CounterIncrement ==
    /\ cnt_a # NoCounter
    /\ counter_len(increment(cnt_a)) <= MaxDigits
    /\ cnt_a' = increment(cnt_a)
    /\ cnt_op' = [NoOp EXCEPT !.op = "increment", !.prev = cnt_a]
    /\ UNCHANGED <<more_vars, cnt_b, range_vars, map_vars>>

CounterCompare ==
    /\ cnt_a # NoCounter
    /\ cnt_b # NoCounter
    /\ cnt_op' = [NoOp EXCEPT !.op = "compare",
                              !.lt = counter_lt(cnt_a, cnt_b),
                              !.eq = counter_eq(cnt_a, cnt_b),
                              !.le = counter_le(cnt_a, cnt_b),
                              !.gt = counter_gt(cnt_a, cnt_b)]
    /\ UNCHANGED <<more_vars, cnt_a, cnt_b, range_vars, map_vars>>

NextCounter ==
    CounterConstructA \/ CounterConstructB \/ CounterIncrement \/ CounterCompare

SpecCounter == Init /\ [][NextCounter]_vars

(***************************************************************************)
(* Maps: a map is constructed from any interval list and any pair of       *)
(* lookup functions, then looked up in both directions.                    *)
(***************************************************************************)

IntervalLists == SeqsOf(Intervals, 0, MaxIntervals)

\* The lookup_char and lookup_index given together to the constructor:
\* none, one without the other, the pairs of CharacterMap.UNICODE and
\* NON_ASCII, the pairs of CharacterMap.ASCII and ByteMap.ASCII, a pair
\* that is not inverse, and a pair with a
\* lookup_char or a lookup_index whose result has the wrong type. Each is
\* offered with intervals of str and of bytes.
LookupPairs ==
    { <<None, None>>, <<"ord", None>>, <<None, "chr">>,
      <<"ord", "chr">>, <<"rank", "rank">>,
      <<"ascii", "char">>, <<"ascii", "byte">>,
      <<"ord", "rank">>, <<"repr", "chr">>, <<"ord", "int">> }

MapConstruct ==
    /\ imap.status = "none"
    /\ \E ivs \in IntervalLists, l \in LookupPairs :
          imap' = IndexMapInit(ivs, l[1], l[2])
    /\ UNCHANGED <<more_vars, mcall, range_vars, counter_vars>>

\* The symbols of the kind of the map that lookups are asked for: the
\* codepoints intervals are made of and, for a str, the first symbol of
\* CharacterMap.NON_ASCII, which lies in no interval (no byte is that high).
SymbolsOffered(m) ==
    Codepoints \cup (IF element_type(m) = "str" THEN {RankOffset} ELSE {})

SymbolToIndex ==
    /\ imap.status = "ok"
    /\ \E c \in SymbolsOffered(imap) \cup {NotAChar} :
          LET r == get_index_given_char(imap, c)
          IN  /\ imap' = r.map
              /\ mcall' = [op |-> "symbol_to_index", arg |-> c,
                           status |-> r.status, value |-> r.value,
                           invoked |-> r.invoked]
    /\ UNCHANGED <<more_vars, range_vars, counter_vars>>

IndexToSymbol ==
    /\ imap.status = "ok"
    /\ \E i \in (-1)..map_len(imap) :
          LET r == get_char_given_index(imap, i)
          IN  /\ imap' = r.map
              /\ mcall' = [op |-> "index_to_symbol", arg |-> i,
                           status |-> r.status, value |-> r.value,
                           invoked |-> r.invoked]
    /\ UNCHANGED <<more_vars, range_vars, counter_vars>>

NextMap == MapConstruct \/ SymbolToIndex \/ IndexToSymbol

SpecMap == Init /\ [][NextMap]_vars

(***************************************************************************)
(* Properties of ranges (under Spec)                                       *)
(***************************************************************************)

\* The index the map assigns to each symbol of a value.
IndexSeq(m, value) ==
    [i \in 1..Len(value) |-> get_index_given_char(m, value[i]).value]

RECURSIVE Horner(_, _, _)
\* The value of a digit list read as a base-`base` numeral, most significant
\* digit first.
Horner(digits, base, acc) ==
    IF digits = <<>> THEN acc
    ELSE Horner(Tail(digits), base, acc * base + Head(digits))

ToInteger(m, value) == Horner(IndexSeq(m, value), map_len(m), 0)

RECURSIVE SumOfPowers(_, _, _)
\* The sum of base^w for w from lo through hi, empty when hi < lo.
SumOfPowers(base, lo, hi) ==
    IF hi < lo THEN 0 ELSE SumOfPowers(base, lo, hi - 1) + Pow(base, hi)

\* start is after end: it is longer, or as long and greater position by
\* position under the indices of the map.
StartAfterEnd(m, start, end) ==
    \/ Len(start) > Len(end)
    \/ /\ Len(start) = Len(end)
       /\ TupleLt(IndexSeq(m, end), IndexSeq(m, start))

\* C1: for every accepted range, length() equals the number of elements an
\* exhausted iteration has yielded.
C1_LengthEqualsEnumeration ==
    (it.pc = "done" /\ lenres.called) => lenres.value = Len(it.out)

\* C2 as stated: length() = (sum of base^w for w from len(start)+1 through
\* len(end)-1) + to_integer(end) - to_integer(start) + 1.
C2_ClosedFormFromNextWidth ==
    lenres.called =>
        lenres.value = SumOfPowers(map_len(rmap), Len(rng.start) + 1, Len(rng.end) - 1)
                       + ToInteger(rmap, rng.end) - ToInteger(rmap, rng.start) + 1

\* C2 amended: length() = (sum of base^w for w from len(start) through
\* len(end)-1, empty when len(end) <= len(start)) + to_integer(end)
\* - to_integer(start) + 1.
C2_ClosedForm ==
    lenres.called =>
        lenres.value = SumOfPowers(map_len(rmap), Len(rng.start), Len(rng.end) - 1)
                       + ToInteger(rmap, rng.end) - ToInteger(rmap, rng.start) + 1

\* len() was called on a range over three symbols whose end is one symbol
\* longer than its start.
C2_Witness ==
    /\ lenres.called
    /\ Len(rng.end) = Len(rng.start) + 1
    /\ map_len(rmap) = 3
    /\ lenres.value > 3

\* C3: with endpoints that are all in the map, construction fails with
\* InvalidRangeDirection exactly when start is after end under the indices
\* of the map, and is accepted otherwise.
C3_DirectionByMapIndices ==
    rng.status \in {"ok", "InvalidRangeDirection"} =>
        (rng.status = "InvalidRangeDirection"
            <=> StartAfterEnd(rmap, rng.start, rng.end))

\* The element one increment after an element.
Successor(m, value) ==
    make_element(m, increment(make_collection(m, value).counter)).value

\* C4: an exhausted iteration has yielded start first and end last; each
\* element is the rendering of the cursor, each next element is one
\* increment after the one before.
C4_FromStartThroughEnd ==
    /\ it.pc = "yielded" =>
          it.out[Len(it.out)] = make_element(rmap, it.current).value
    /\ \A i \in 1..(Len(it.out) - 1) : it.out[i + 1] = Successor(rmap, it.out[i])
    /\ it.pc = "done" =>
          /\ it.out # <<>>
          /\ it.out[1] = rng.start
          /\ it.out[Len(it.out)] = rng.end

\* Every symbol of the value has the last index of the map.
AllLastIndex(m, value) ==
    \A i \in 1..Len(value) : IndexSeq(m, value)[i] = map_len(m) - 1

\* The value of the given width made only of the symbol of index 0.
AllFirstSymbol(m, width) ==
    [i \in 1..width |-> get_char_given_index(m, 0).value]

Digit(d) == 48 + d

\* '0'..'9', '00'..'09', '10'..'19'
DigitsExpected ==
    [i \in 1..10 |-> <<Digit(i - 1)>>]
    \o [i \in 1..10 |-> <<Digit(0), Digit(i - 1)>>]
    \o [i \in 1..10 |-> <<Digit(1), Digit(i - 1)>>]

IsDigitsRange ==
    /\ rng.status = "ok"
    /\ rmap.intervals = AsciiDigits.intervals
    /\ rng.start = DigitsStart
    /\ rng.end = DigitsEnd

\* C5: a range whose endpoints differ in length enumerates in order of
\* width: widths never decrease, the width grows exactly after the last
\* string of a width, and the element after it is the next width's string
\* of index-0 symbols; '0'..'19' over the ASCII digits yields exactly
\* '0'..'9', '00'..'09', '10'..'19'.
C5_WidthOrder ==
    /\ (rng.status = "ok" /\ Len(rng.start) < Len(rng.end)) =>
          /\ \A i \in 1..(Len(it.out) - 1) :
                LET x == it.out[i]
                    y == it.out[i + 1]
                IN  /\ Len(x) <= Len(y)
                    /\ AllLastIndex(rmap, x) <=> Len(y) = Len(x) + 1
                    /\ AllLastIndex(rmap, x) => y = AllFirstSymbol(rmap, Len(x) + 1)
          /\ it.pc = "done" =>
                /\ it.out # <<>>
                /\ it.out[1] = rng.start
                /\ it.out[Len(it.out)] = rng.end
    /\ (IsDigitsRange /\ it.pc = "done") => it.out = DigitsExpected

\* '0'..'19' over the ASCII digits has been enumerated to its end.
C5_Witness ==
    /\ IsDigitsRange
    /\ it.pc = "done"
    /\ Len(it.out) = 30
    /\ it.out[11] = <<Digit(0), Digit(0)>>

(***************************************************************************)
(* Properties of counters (under SpecCounter)                              *)
(***************************************************************************)

\* The least significant position whose index is below base - 1.
FirstBelowLast(k) ==
    CHOOSE n \in 1..Len(k.inv) :
        /\ k.inv[n] < k.base - 1
        /\ \A j \in 1..(n - 1) : k.inv[j] = k.base - 1

\* The digits of a counter are not empty and each lies in [0, base).
ValidCounter(k) ==
    /\ k.base >= 1
    /\ k.inv # <<>>
    /\ \A n \in DOMAIN k.inv : 0 <= k.inv[n] /\ k.inv[n] < k.base

\* k is the successor of p in a variable-length base-N count.  With an
\* index of p below base-1 the number of indices is unchanged and the
\* integral value grows by 1: the trailing base-1 indices become 0, the
\* first index below base-1 grows by 1 and the rest is unchanged.  With
\* every index at base-1 the result has one more index and all are zero.
IncrementedAsSuccessor(p, k) ==
        IF \E n \in 1..Len(p.inv) : p.inv[n] < p.base - 1
            THEN /\ counter_len(k) = counter_len(p)
                 /\ counter_index(k) = counter_index(p) + 1
                 /\ \A j \in 1..Len(p.inv) :
                       k.inv[j] = IF j < FirstBelowLast(p) THEN 0
                                  ELSE IF j = FirstBelowLast(p) THEN p.inv[j] + 1
                                  ELSE p.inv[j]
            ELSE /\ counter_len(k) = counter_len(p) + 1
                 /\ \A j \in 1..Len(k.inv) : k.inv[j] = 0

\* C6 as stated, for every counter the constructor accepts: the counter
\* after increment() is the successor of the counter before it.
C6_IncrementIsSuccessor ==
    cnt_op.op = "increment" => IncrementedAsSuccessor(cnt_op.prev, cnt_a)

\* C6 amended: the counter after increment() is the successor of the
\* counter before it for every counter whose indices all lie in [0, base).
C6_IncrementIsSuccessorInBase ==
    (cnt_op.op = "increment" /\ ValidCounter(cnt_op.prev)) =>
        IncrementedAsSuccessor(cnt_op.prev, cnt_a)

\* A two-index counter with both indices at base-1 was incremented.
C6_Witness ==
    /\ cnt_op.op = "increment"
    /\ cnt_op.prev.base = 3
    /\ cnt_op.prev.inv = <<2, 2>>
    /\ cnt_a.inv = <<0, 0, 0>>

\* C7: the counter after increment() is strictly greater than the counter
\* before it, and has at least as many indices.
C7_IncrementIsMonotonic ==
    cnt_op.op = "increment" =>
        /\ counter_gt(cnt_a, cnt_op.prev)
        /\ counter_lt(cnt_op.prev, cnt_a)
        /\ counter_len(cnt_a) >= counter_len(cnt_op.prev)

\* An increment grew the counter by one index.
C7_Witness ==
    /\ cnt_op.op = "increment"
    /\ counter_len(cnt_a) = counter_len(cnt_op.prev) + 1
    /\ counter_index(cnt_a) < counter_index(cnt_op.prev)

\* C8 as stated, for any two counters of the same base the constructor
\* accepts: a < b iff a has fewer indices, or as many and a smaller integral
\* value.
C8_OrderByLengthThenValue ==
    (cnt_op.op = "compare" /\ cnt_a.base = cnt_b.base) =>
        (cnt_op.lt <=>
            \/ counter_len(cnt_a) < counter_len(cnt_b)
            \/ /\ counter_len(cnt_a) = counter_len(cnt_b)
               /\ counter_index(cnt_a) < counter_index(cnt_b))

\* C8 amended: for two counters of the same base whose indices all lie in
\* [0, base), a < b iff a has fewer indices, or as many and a smaller
\* integral value.
C8_OrderByLengthThenValueInBase ==
    ( /\ cnt_op.op = "compare"
      /\ cnt_a.base = cnt_b.base
      /\ ValidCounter(cnt_a)
      /\ ValidCounter(cnt_b) ) =>
        (cnt_op.lt <=>
            \/ counter_len(cnt_a) < counter_len(cnt_b)
            \/ /\ counter_len(cnt_a) = counter_len(cnt_b)
               /\ counter_index(cnt_a) < counter_index(cnt_b))

\* A counter of indices of its base with fewer indices and a greater
\* integral value compared less than another such counter.
C8_Witness ==
    /\ cnt_op.op = "compare"
    /\ ValidCounter(cnt_a)
    /\ ValidCounter(cnt_b)
    /\ cnt_a.base = cnt_b.base
    /\ counter_len(cnt_a) < counter_len(cnt_b)
    /\ counter_index(cnt_a) > counter_index(cnt_b)
    /\ cnt_op.lt

(***************************************************************************)
(* Properties of maps (under SpecMap)                                      *)
(***************************************************************************)

\* index_to_symbol(symbol_to_index(c)) == c for every member c, and
\* symbol_to_index(index_to_symbol(i)) == i for every i in [0, cardinality)
RoundTrip(m) ==
    /\ \A c \in SymbolsOffered(m) :
          LET f == get_index_given_char(m, c)
              b == get_char_given_index(f.map, f.value)
          IN  f.status = "ok" => (b.status = "ok" /\ b.value = c)
    /\ \A i \in 0..(map_len(m) - 1) :
          LET b == get_char_given_index(m, i)
              f == get_index_given_char(b.map, b.value)
          IN  b.status = "ok" /\ f.status = "ok" /\ f.value = i

\* The two lookup functions of a lazy map are inverse to each other.
LookupsInverse(m) ==
    /\ lookup_char_returns_int(m.lc)
    /\ lookup_index_returns_char(m.li, element_type(m))
    /\ \A c \in SymbolsOffered(m) :
          ( /\ lookup_char_raises(m.lc, c) = "ok"
            /\ contains_index(m, LookupChar(m.lc, c)) ) =>
              LookupIndex(m.li, LookupChar(m.lc, c)) = c
    /\ \A i \in 0..(map_len(m) - 1) :
          LookupChar(m.lc, LookupIndex(m.li, i)) = i

\* C9 as stated: the round trip holds on every constructed map, eager or lazy.
C9_RoundTripOnEveryMap == imap.status = "ok" => RoundTrip(imap)

\* C9 amended: the round trip holds on every eager map, and on every lazy
\* map whose two lookup functions are inverse to each other.
C9_RoundTrip ==
    (imap.status = "ok" /\ (imap.populated \/ LookupsInverse(imap))) =>
        RoundTrip(imap)

\* A lazy map with inverse lookups has answered lookups in both directions.
C9_Witness ==
    /\ imap.status = "ok"
    /\ ~imap.populated
    /\ LookupsInverse(imap)
    /\ Len(imap.intervals) = 2
    /\ DOMAIN imap.c2i # {}
    /\ DOMAIN imap.i2c # {}
    /\ mcall.op = "index_to_symbol"
    /\ mcall.status = "ok"

\* The symbols of an interval.
SymbolsOf(iv) == iv.start..iv.end

\* Two intervals of the list share a symbol.
SharesSymbol(ivs) ==
    \E i, j \in DOMAIN ivs :
        i # j /\ SymbolsOf(ivs[i]) \cap SymbolsOf(ivs[j]) # {}

\* C10: a list of same-kind intervals of which two share a symbol is
\* rejected with OverlappingIntervals, with lookup functions and without,
\* and OverlappingIntervals is raised for no pairwise disjoint list.
C10_OverlapRejected ==
    /\ imap.status = "OverlappingIntervals" => SharesSymbol(imap.intervals)
    /\ ( /\ imap.status # "none"
         /\ SharesSymbol(imap.intervals)
         /\ intervals_must_have_same_type(imap.intervals)
         /\ ~only_one_given(imap.lc, imap.li) ) =>
            imap.status = "OverlappingIntervals"

\* A lazy map was refused for two intervals sharing one endpoint.
C10_Witness ==
    /\ imap.status = "OverlappingIntervals"
    /\ both_given(imap.lc, imap.li)
    /\ Len(imap.intervals) = 2
    /\ imap.intervals[1].end = imap.intervals[2].start

\* A symbol_to_index step of a lazy map: the call recorded in mcall' was made
\* on the map imap and left the map imap'.
LazySymbolToIndexStep ==
    /\ imap.status = "ok"
    /\ ~imap.populated
    /\ mcall'.op = "symbol_to_index"
    /\ is_char_of_type(mcall'.arg)

\* The lookup function returns, and its value is an integer in
\* [0, cardinality).
ValidLookupResult(m, c) ==
    /\ lookup_char_raises(m.lc, c) = "ok"
    /\ lookup_char_returns_int(m.lc)
    /\ LookupChar(m.lc, c) \in 0..(SumLens(m.intervals) - 1)

\* C11: on a lazy map, symbol_to_index of a symbol that is not cached invokes
\* the lookup function, fails with InvalidIndex and stores nothing when the
\* result is not an integer in [0, cardinality), and otherwise stores the
\* result and returns it (when the lookup function itself raises, its
\* exception is what the call raises, and nothing is stored);
\* symbol_to_index of a cached symbol returns the cached index without
\* invoking the lookup function, and no step changes or removes a cached
\* index, so every later call returns the same index.
C11_LazyLookupCaches ==
    [][ /\ LazySymbolToIndexStep =>
            LET c == mcall'.arg
            IN  IF c \in DOMAIN imap.c2i
                THEN /\ ~mcall'.invoked
                     /\ mcall'.status = "ok"
                     /\ mcall'.value = imap.c2i[c]
                ELSE /\ mcall'.invoked
                     /\ IF ValidLookupResult(imap, c)
                        THEN /\ mcall'.status = "ok"
                             /\ mcall'.value = LookupChar(imap.lc, c)
                             /\ c \in DOMAIN imap'.c2i
                             /\ imap'.c2i[c] = mcall'.value
                        ELSE /\ mcall'.status =
                                    IF lookup_char_raises(imap.lc, c) # "ok"
                                    THEN "ValueError" ELSE "InvalidIndex"
                             /\ imap'.c2i = imap.c2i
        /\ imap.status = "ok" =>
            \A k \in DOMAIN imap.c2i :
                k \in DOMAIN imap'.c2i /\ imap'.c2i[k] = imap.c2i[k]
      ]_vars

\* A lazy map answered symbol_to_index from its cache, the lookup function
\* not invoked, after an earlier call had stored the index.
C11_Witness ==
    /\ imap.status = "ok"
    /\ ~imap.populated
    /\ mcall.op = "symbol_to_index"
    /\ mcall.status = "ok"
    /\ ~mcall.invoked
    /\ mcall.arg \in DOMAIN imap.c2i
    /\ imap.c2i[mcall.arg] = mcall.value

(***************************************************************************)
(* Threads sharing one map: each thread calls symbol_to_index once on rmap *)
(* and runs _get_index_given_char in three steps, between which the        *)
(* interpreter may switch to the other thread. The method takes no lock.   *)
(***************************************************************************)

\* A thread enters _get_index_given_char(char).
ThreadCall(t) ==
    /\ rmap.status = "ok"
    /\ thr[t].pc = "idle"
    /\ \E c \in Codepoints :
          thr' = [thr EXCEPT ![t] = [NoThread EXCEPT !.pc = "called", !.char = c]]
    /\ UNCHANGED <<old_vars, overlap_vars, it2, ncalls, combine_vars, interval_vars>>

\* The thread reads the cache: a hit returns, a miss of an eager map raises
\* LookupError, a miss of a lazy map goes on to the lookup function.
ThreadCheck(t) ==
    /\ thr[t].pc = "called"
    /\ LET c == thr[t].char
       IN  thr' = [thr EXCEPT ![t] =
                IF c \in DOMAIN rmap.c2i
                    THEN [@ EXCEPT !.pc = "done", !.value = rmap.c2i[c]]
                ELSE IF rmap.lc = None
                    THEN [@ EXCEPT !.pc = "done", !.status = "LookupError"]
                ELSE [@ EXCEPT !.pc = "lookup"]]
    /\ UNCHANGED <<old_vars, overlap_vars, it2, ncalls, combine_vars, interval_vars>>

\* The thread invokes lookup_char(char).
ThreadLookup(t) ==
    /\ thr[t].pc = "lookup"
    /\ LET c == thr[t].char
       IN  /\ thr' = [thr EXCEPT ![t] =
                  IF lookup_char_raises(rmap.lc, c) # "ok"
                  THEN [@ EXCEPT !.pc = "done",
                                 !.status = lookup_char_raises(rmap.lc, c)]
                  ELSE [@ EXCEPT !.pc = "validate",
                                 !.result = LookupChar(rmap.lc, c)]]
           /\ ncalls' = [ncalls EXCEPT ![c] = @ + 1]
    /\ UNCHANGED <<old_vars, overlap_vars, it2, combine_vars, interval_vars>>

\* The thread validates the result, stores it and returns the stored index.
ThreadStore(t) ==
    /\ thr[t].pc = "validate"
    /\ LET c == thr[t].char
           result == thr[t].result
       IN  IF ~lookup_char_returns_int(rmap.lc) \/ ~contains_index(rmap, result)
           THEN /\ thr' = [thr EXCEPT ![t] =
                       [@ EXCEPT !.pc = "done", !.status = "InvalidIndex"]]
                /\ rmap' = rmap
           ELSE /\ rmap' = [rmap EXCEPT !.c2i = Put(rmap.c2i, c, result)]
                /\ thr' = [thr EXCEPT ![t] =
                       [@ EXCEPT !.pc = "done", !.value = result]]
    /\ UNCHANGED <<overlap_vars, rng, it, lenres, counter_vars, map_vars, it2, ncalls,
                   combine_vars, interval_vars>>

NextRace ==
    \/ MakeMap
    \/ \E t \in Threads : ThreadCall(t)
    \/ \E t \in Threads : ThreadCheck(t)
    \/ \E t \in Threads : ThreadLookup(t)
    \/ \E t \in Threads : ThreadStore(t)

SpecRace == Init /\ [][NextRace]_vars

\* C12: when several callers share one lazy map and miss the cache on the
\* same symbol, the lookup function is invoked at most once for that symbol,
\* and every caller that returned holds the index the cache holds.
C12_MissIsSerialized ==
    /\ \A c \in Codepoints : ncalls[c] <= 1
    /\ \A t \in Threads :
          (thr[t].pc = "done" /\ thr[t].status = "ok") =>
              /\ thr[t].char \in DOMAIN rmap.c2i
              /\ rmap.c2i[thr[t].char] = thr[t].value

(***************************************************************************)
(* Two iterations of one range: iter(rng) is called a second time, before, *)
(* between or after the steps of the first generator, and the two          *)
(* generators are advanced in any order.                                   *)
(***************************************************************************)

\* iter(rng) of a range that is its own iterator: the second call hands
\* out the cursor of the first
Iterate2Resumed ==
    /\ rng.status = "ok"
    /\ it2.pc = "none"
    /\ it2' = IF it.pc = "none" THEN range_iter ELSE [it EXCEPT !.out = <<>>]
    /\ UNCHANGED <<old_vars, overlap_vars, race_vars, combine_vars, interval_vars>>

\* The second call of _Range.__iter__
Iterate2 ==
    /\ rng.status = "ok"
    /\ it2.pc = "none"
    /\ it2' = range_iter
    /\ UNCHANGED <<old_vars, overlap_vars, race_vars, combine_vars, interval_vars>>

\* next() on the second generator
IterNext2 ==
    /\ it2.pc \in {"created", "yielded"}
    /\ LET r == iter_next(rmap, rng, it2)
       IN  /\ it2' = r.it
           /\ rmap' = r.map
    /\ UNCHANGED <<overlap_vars, rng, it, lenres, counter_vars, map_vars, race_vars,
                   combine_vars, interval_vars>>

NextIter ==
    MakeMap \/ ConstructRange \/ Iterate \/ IterNext \/ Iterate2 \/ IterNext2

SpecIter == Init /\ [][NextIter]_vars

\* One sequence is the beginning of the other.
IsPrefix(s, t) == Len(s) <= Len(t) /\ s = SubSeq(t, 1, Len(s))

\* C13: two iterations of one range, run one after the other or interleaved
\* in any order, yield the same sequence (at every moment one has yielded a
\* beginning of what the other has, and two exhausted iterations have
\* yielded the same), and no step of an iteration changes the start or the
\* end of the range or the intervals and lookup functions of its map.
C13_IterationsAreIndependent ==
    /\ [](/\ IsPrefix(it.out, it2.out) \/ IsPrefix(it2.out, it.out)
          /\ (it.pc = "done" /\ it2.pc = "done") => it.out = it2.out
          /\ it.pc = "done" => IsPrefix(it2.out, it.out)
          /\ it2.pc = "done" => IsPrefix(it.out, it2.out))
    /\ [][rng.status = "ok" =>
            /\ rng' = rng
            /\ rmap'.intervals = rmap.intervals
            /\ rmap'.lc = rmap.lc
            /\ rmap'.li = rmap.li
            /\ rmap'.status = rmap.status]_vars

\* Two generators of one range are suspended in the middle of their
\* iterations, the first two elements further along than the second.
C13_Witness ==
    /\ it.pc = "yielded"
    /\ it2.pc = "yielded"
    /\ Len(it2.out) >= 1
    /\ Len(it.out) = Len(it2.out) + 2

\* The symbols of the intervals of a map.
MapSymbols(m) == UNION {SymbolsOf(m.intervals[i]) : i \in DOMAIN m.intervals}

\* The endpoint is empty or holds a symbol that is not in the map.
BadEndpoint(m, s) == s = <<>> \/ \E i \in DOMAIN s : s[i] \notin MapSymbols(m)

\* C14: the range constructor raises InvalidEndpoints exactly when an
\* endpoint is empty or holds a symbol that is not a member of the map,
\* whatever the direction of the endpoints, and so every constructed range
\* has two non-empty endpoints made of members.
C14_EndpointsValidatedFirst ==
    rng.status # "none" =>
        /\ rng.status = "InvalidEndpoints" <=>
              (BadEndpoint(rmap, rng.start) \/ BadEndpoint(rmap, rng.end))
        /\ rng.status = "ok" =>
              /\ rng.start # <<>> /\ rng.end # <<>>
              /\ \A i \in DOMAIN rng.start : rng.start[i] \in MapSymbols(rmap)
              /\ \A i \in DOMAIN rng.end : rng.end[i] \in MapSymbols(rmap)

\* InvalidEndpoints was raised for two non-empty endpoints, one holding a
\* symbol outside the map, that are also in the wrong direction.
C14_Witness ==
    /\ rng.status = "InvalidEndpoints"
    /\ rng.start # <<>>
    /\ rng.end # <<>>
    /\ Len(rng.start) > Len(rng.end)

(***************************************************************************)
(* Maps built and combined: a map is constructed from an interval list     *)
(* without lookup functions or with a pair of them, a second operand is    *)
(* constructed, and + is applied to the two; a sum may be the left operand *)
(* of another +.                                                           *)
(***************************************************************************)

\* The lookup functions of the operands: none, the pairs of
\* CharacterMap.UNICODE and CharacterMap.NON_ASCII, a pair that shares
\* one function with each of them, and the pairs of CharacterMap.ASCII and
\* ByteMap.ASCII.
CombineLookups ==
    {<<None, None>>, <<"ord", "chr">>, <<"rank", "rank">>, <<"ord", "rank">>,
     <<"ascii", "char">>, <<"ascii", "byte">>}

\* The maps the constructor returns.
ConstructedMaps ==
    {m \in {IndexMapInit(ivs, lu[1], lu[2]) :
                ivs \in IntervalLists, lu \in CombineLookups} : m.status = "ok"}

Operands ==
    {MapOperand(m) : m \in ConstructedMaps}
        \cup {IntervalOperand(iv) : iv \in Intervals}

CombineLeft ==
    /\ cmb_l.is = "none"
    /\ cmb_l' \in Operands
    /\ UNCHANGED <<old_vars, overlap_vars, it2, race_vars, cmb_r, cmb_res, interval_vars>>

CombineRight ==
    /\ cmb_r.is = "none"
    /\ cmb_r' \in Operands
    /\ UNCHANGED <<old_vars, overlap_vars, it2, race_vars, cmb_l, cmb_res, interval_vars>>

\* cmb_l + cmb_r
Combine ==
    /\ cmb_l.is # "none"
    /\ cmb_r.is # "none"
    /\ cmb_res.status = "none"
    /\ cmb_res' = IF cmb_l.is = "map" THEN map_add(cmb_l.map, cmb_r)
                  ELSE interval_add(cmb_l.interval, cmb_r)
    /\ UNCHANGED <<old_vars, overlap_vars, it2, race_vars, cmb_l, cmb_r, interval_vars>>

\* s = cmb_l + cmb_r; s + ...: the map + returned is the left operand of
\* another +
CombineAgain ==
    /\ cmb_res.status = "ok"
    /\ cmb_l' = MapOperand(cmb_res)
    /\ cmb_r' = NoOperand
    /\ cmb_res' = NoMap
    /\ UNCHANGED <<old_vars, overlap_vars, it2, race_vars, interval_vars>>

NextCombine == CombineLeft \/ CombineRight \/ Combine \/ CombineAgain

SpecCombine == Init /\ [][NextCombine]_vars

\* What + does, the lookup functions compared as the objects they are:
\* ConfigurationConflict exactly when the element kinds differ or, for two
\* maps, a lookup function of the one is another object than that of the
\* other (every copy of a functools.partial is); otherwise the new map has
\* the left intervals followed by the right ones and deep copies of the left
\* lookup functions, unless the two operands share a symbol, which the
\* constructor refuses with OverlappingIntervals; and in the sum of two
\* eager maps every left symbol keeps its index and every right symbol has
\* its index in the right map plus the cardinality of the left map.
CombineComparesFunctionObjects ==
    (cmb_res.status # "none" /\ cmb_l.is = "map") =>
        LET l == cmb_l.map
            both == l.intervals \o operand_intervals(cmb_r)
            conflict ==
                \/ operand_kind(cmb_r) # l.intervals[1].kind
                \/ cmb_r.is = "map" /\ ~searchers_eq(l, cmb_r.map)
        IN  /\ cmb_res.status = "ConfigurationConflict" <=> conflict
            /\ cmb_res.status = "OverlappingIntervals" <=>
                  (~conflict /\ SharesSymbol(both))
            /\ cmb_res.status = "ok" <=> (~conflict /\ ~SharesSymbol(both))
            /\ cmb_res.status = "ok" =>
                  /\ cmb_res.intervals = both
                  /\ cmb_res.lc = deepcopy_lookup(l.lc)
                  /\ cmb_res.li = deepcopy_lookup(l.li)
            /\ (cmb_res.status = "ok" /\ cmb_r.is = "map" /\ l.populated) =>
                  /\ \A c \in DOMAIN l.c2i : cmb_res.c2i[c] = l.c2i[c]
                  /\ \A c \in DOMAIN cmb_r.map.c2i :
                        cmb_res.c2i[c] =
                            cmb_r.map.c2i[c] + Cardinality(DOMAIN l.c2i)

\* A sum that holds a copy of a functools.partial was the left operand of +
\* with a map made with the original functions, and + raised
\* ConfigurationConflict.
CopyConflicts ==
    /\ cmb_res.status = "ConfigurationConflict"
    /\ cmb_l.is = "map"
    /\ cmb_r.is = "map"
    /\ cmb_l.map.li \in PartialCopies
    /\ lookup_computes(cmb_l.map.li) = cmb_r.map.li
    /\ cmb_l.map.lc = cmb_r.map.lc

\* C15: a map plus a map or an interval raises ConfigurationConflict exactly
\* when the element kinds differ or, for two maps, the lookup functions
\* differ (an eager map with a lazy one included); otherwise the result is a
\* new map of the left intervals followed by the right ones that computes
\* with the left lookup functions, unless the two operands share a symbol,
\* which the constructor refuses with OverlappingIntervals; and in the sum
\* of two eager maps every left symbol keeps its index and every right
\* symbol has its index in the right map plus the cardinality of the left
\* map.
C15_CombineConcatenates ==
    (cmb_res.status # "none" /\ cmb_l.is = "map") =>
        LET l == cmb_l.map
            both == l.intervals \o operand_intervals(cmb_r)
            conflict ==
                \/ operand_kind(cmb_r) # l.intervals[1].kind
                \/ /\ cmb_r.is = "map"
                   /\ \/ lookup_computes(cmb_r.map.lc) # lookup_computes(l.lc)
                      \/ lookup_computes(cmb_r.map.li) # lookup_computes(l.li)
        IN  /\ cmb_res.status = "ConfigurationConflict" <=> conflict
            /\ cmb_res.status = "OverlappingIntervals" <=>
                  (~conflict /\ SharesSymbol(both))
            /\ cmb_res.status = "ok" <=> (~conflict /\ ~SharesSymbol(both))
            /\ cmb_res.status = "ok" =>
                  /\ cmb_res.intervals = both
                  /\ lookup_computes(cmb_res.lc) = lookup_computes(l.lc)
                  /\ lookup_computes(cmb_res.li) = lookup_computes(l.li)
            /\ (cmb_res.status = "ok" /\ cmb_r.is = "map" /\ l.populated) =>
                  /\ \A c \in DOMAIN l.c2i : cmb_res.c2i[c] = l.c2i[c]
                  /\ \A c \in DOMAIN cmb_r.map.c2i :
                        cmb_res.c2i[c] =
                            cmb_r.map.c2i[c] + Cardinality(DOMAIN l.c2i)

RECURSIVE LengthsUpTo(_, _)
\* The number of symbols of the first j intervals of a list.
LengthsUpTo(ivs, j) ==
    IF j = 0 THEN 0
    ELSE (ivs[j].end - ivs[j].start + 1) + LengthsUpTo(ivs, j - 1)

\* The tables of an eager map are what the claim says of them.
TablesAreTheEnumeration(m) ==
    LET card == LengthsUpTo(m.intervals, Len(m.intervals))
    IN  /\ DOMAIN m.c2i = MapSymbols(m)
        /\ DOMAIN m.i2c = 0..(card - 1)
        /\ \A c \in DOMAIN m.c2i : m.i2c[m.c2i[c]] = c
        /\ \A i \in DOMAIN m.i2c : m.c2i[m.i2c[i]] = i
        /\ \A j \in DOMAIN m.intervals :
              \A c \in SymbolsOf(m.intervals[j]) :
                  m.c2i[c] = LengthsUpTo(m.intervals, j - 1)
                                 + (c - m.intervals[j].start)
        /\ map_len(m) = card

\* The eager maps of a state: the operands that are maps and the result.
EagerMaps ==
    {m \in {cmb_l.map, cmb_r.map, cmb_res} : m.status = "ok" /\ m.populated}

\* C18: in every map constructed without lookup functions the two tables
\* are defined on exactly the symbols of the intervals and on exactly the
\* indices 0..cardinality-1, they are inverse to each other, the k-th symbol
\* of the intervals chained in list order has index k, and the cardinality
\* is the sum of the lengths of the intervals.
C18_EagerTables == \A m \in EagerMaps : TablesAreTheEnumeration(m)

\* An eager map was constructed from two intervals listed against codepoint
\* order, the first with more than one symbol.
C18_Witness ==
    \E m \in EagerMaps :
        /\ Len(m.intervals) = 2
        /\ m.intervals[1].start > m.intervals[2].end
        /\ m.intervals[1].start < m.intervals[1].end

(***************************************************************************)
(* Intervals: an interval is constructed from two symbols of one kind and  *)
(* then measured, indexed, iterated and asked for membership.              *)
(***************************************************************************)

IntervalConstruct ==
    /\ ivl.status = "none"
    /\ \E k \in Kinds, s \in Codepoints, e \in Codepoints :
          ivl' = [status |-> interval_validate(k, s, e),
                  interval |-> MkInterval(k, s, e)]
    /\ UNCHANGED <<old_vars, overlap_vars, it2, race_vars, combine_vars, ivcall, ivgen>>

IntervalLen ==
    /\ ivl.status = "ok"
    /\ ivcall' = [NoIvCall EXCEPT !.op = "len",
                                  !.value = interval_len(ivl.interval)]
    /\ UNCHANGED <<old_vars, overlap_vars, it2, race_vars, combine_vars, ivl, ivgen>>

\* The indices offered reach past both ends of the interval and of its
\* mirror image below zero.
IntervalGetItem ==
    /\ ivl.status = "ok"
    /\ \E i \in (-(MaxCode + 3))..(MaxCode + 2) :
          LET r == interval_getitem(ivl.interval, i)
          IN  ivcall' = [NoIvCall EXCEPT !.op = "getitem", !.arg = i,
                                         !.status = r.status, !.value = r.value]
    /\ UNCHANGED <<old_vars, overlap_vars, it2, race_vars, combine_vars, ivl, ivgen>>

\* iter(interval): the generator is created and none of its body runs
IntervalIterate ==
    /\ ivl.status = "ok"
    /\ ivgen.pc = "none"
    /\ ivgen' = [NoIvGen EXCEPT !.pc = "created"]
    /\ UNCHANGED <<old_vars, overlap_vars, it2, race_vars, combine_vars, ivl, ivcall>>

\* next() on the generator: the loop over to_codepoint_range() runs to its
\* next yield, or ends
IntervalIterNext ==
    /\ ivgen.pc \in {"created", "yielded"}
    /\ ivgen' = interval_next(ivl.interval, ivgen)
    /\ UNCHANGED <<old_vars, overlap_vars, it2, race_vars, combine_vars, ivl, ivcall>>

IntervalContains ==
    /\ ivl.status = "ok"
    /\ \E c \in Codepoints \cup {NotAChar, MaxCode + 1} :
          ivcall' = [NoIvCall EXCEPT !.op = "contains", !.arg = c,
                                     !.found = interval_contains(ivl.interval, c)]
    /\ UNCHANGED <<old_vars, overlap_vars, it2, race_vars, combine_vars, ivl, ivgen>>

NextInterval ==
    \/ IntervalConstruct
    \/ IntervalLen
    \/ IntervalGetItem
    \/ IntervalIterate
    \/ IntervalIterNext
    \/ IntervalContains

SpecInterval == Init /\ [][NextInterval]_vars

\* C16: of every interval, len is end - start + 1; get(i) is the symbol
\* start + i for every i from 0 to len - 1 and raises IndexError for every
\* other i, the negative ones included; the iteration yields get(0), get(1),
\* ..., get(len - 1) in that order; and a symbol is contained exactly when it
\* is one of these.
C16_IntervalIsItsCodepointRange ==
    ivl.status = "ok" =>
        LET iv == ivl.interval
            n == iv.end - iv.start + 1
        IN  /\ ivcall.op = "len" => ivcall.value = n
            /\ ivcall.op = "getitem" =>
                  IF ivcall.arg \in 0..(n - 1)
                  THEN ivcall.status = "ok" /\ ivcall.value = iv.start + ivcall.arg
                  ELSE ivcall.status = "IndexError"
            /\ Len(ivgen.out) <= n
            /\ ivgen.pc = "yielded" => ivgen.out # <<>>
            /\ ivgen.pc = "done" => Len(ivgen.out) = n
            /\ \A k \in 1..Len(ivgen.out) :
                  /\ ivgen.out[k] = iv.start + (k - 1)
                  /\ interval_getitem(iv, k - 1) =
                        [status |-> "ok", value |-> ivgen.out[k]]
            /\ ivcall.op = "contains" =>
                  (ivcall.found <=>
                      \E i \in 0..(n - 1) : ivcall.arg = iv.start + i)

\* get(-1) was refused on an interval of several symbols.
C16_Witness ==
    /\ ivl.status = "ok"
    /\ ivl.interval.start < ivl.interval.end
    /\ ivcall.op = "getitem"
    /\ ivcall.arg = -1
    /\ ivcall.status = "IndexError"

\* The counters of an iteration, the cursor and the end counter as
\* _make_collection builds them from the endpoints and the cursor after each
\* increment, are valid counters in the base of the map: the digits the
\* program hands to the counter constructor are indices the map validated.
CursorDigitsInBase ==
    it.pc \in {"yielded", "done"} =>
        /\ ValidCounter(it.current)
        /\ ValidCounter(it.end)
        /\ it.current.base = map_len(rmap)

(***************************************************************************)
(* Counters constructed directly: the constructor is offered any list of   *)
(* naturals up to MaxBase as the initial digits, in the base or not.       *)
(***************************************************************************)

CounterConstructAny ==
    /\ cnt_a = NoCounter
    /\ \E base \in 0..MaxBase : \E digits \in SeqsOf(0..MaxBase, 0, MaxLen) :
          LET st == counter_init_status(digits, base)
          IN  /\ cnt_a' = IF st = "ok" THEN counter_init(digits, base) ELSE cnt_a
              /\ cnt_op' = OpInit(st)
    /\ UNCHANGED <<more_vars, cnt_b, range_vars, map_vars>>

NextCounterAny == CounterConstructAny \/ CounterIncrement

SpecCounterAny == Init /\ [][NextCounterAny]_vars

\* C17 as stated: every counter reached by the constructor and any number
\* of increments has at least one digit and every digit in [0, base).
C17_DigitsInBaseFromAnyDigits == cnt_a # NoCounter => ValidCounter(cnt_a)

\* C17 amended: every counter has at least one digit and a base of at least
\* 1, and a counter whose digits all lie in [0, base), as one constructed
\* from such digits does, keeps them there and keeps its base under every
\* increment.
C17_DigitsStayInBase ==
    /\ [](cnt_a # NoCounter => (cnt_a.inv # <<>> /\ cnt_a.base >= 1))
    /\ [][(cnt_a # NoCounter /\ ValidCounter(cnt_a)) =>
              (ValidCounter(cnt_a') /\ cnt_a'.base = cnt_a.base)]_vars

\* An increment of a counter of two digits of its base, a base of at least
\* 2, carried out of the last digit and left three digits.
C17_Witness ==
    /\ cnt_op.op = "increment"
    /\ cnt_a.base >= 2
    /\ ValidCounter(cnt_op.prev)
    /\ counter_len(cnt_op.prev) = 2
    /\ counter_len(cnt_a) = 3

\* C19: a lookup on a constructed map changes nothing but a cache of a lazy
\* map, to which a call that missed the cache and succeeded adds exactly one
\* entry: the index, an integer in [0, cardinality), of the symbol asked for,
\* or the symbol of the index asked for. So the tables of an eager map never
\* change, a lookup that raises changes no cache, no entry is overwritten or
\* removed, and the intervals, the lookup functions and the cardinality
\* never change; and index_to_symbol of an index outside [0, cardinality)
\* raises IndexError without invoking the lookup function.
C19_LookupsOnlyFillCaches ==
    [][imap.status = "ok" =>
        /\ (mcall'.op = "index_to_symbol"
               /\ mcall'.arg \notin 0..(SumLens(imap.intervals) - 1)) =>
              (mcall'.status = "IndexError" /\ ~mcall'.invoked /\ imap' = imap)
        /\ mcall'.status # "ok" => imap' = imap
        /\ IF imap' = imap
           THEN ~(mcall'.status = "ok" /\ mcall'.invoked)
           ELSE /\ ~imap.populated
                /\ mcall'.status = "ok"
                /\ mcall'.invoked
                /\ IF mcall'.op = "symbol_to_index"
                   THEN /\ mcall'.arg \notin DOMAIN imap.c2i
                        /\ mcall'.value \in 0..(SumLens(imap.intervals) - 1)
                        /\ imap' = [imap EXCEPT
                               !.c2i = (mcall'.arg :> mcall'.value) @@ imap.c2i]
                   ELSE /\ mcall'.op = "index_to_symbol"
                        /\ mcall'.arg \notin DOMAIN imap.i2c
                        /\ lookup_index_returns_char(imap.li, element_type(imap))
                        /\ imap' = [imap EXCEPT
                               !.i2c = (mcall'.arg :> mcall'.value) @@ imap.i2c]
    ]_vars

\* On a lazy map that holds entries in both caches a lookup function
\* returned a value that was refused.
C19_Witness ==
    /\ imap.status = "ok"
    /\ ~imap.populated
    /\ DOMAIN imap.c2i # {}
    /\ DOMAIN imap.i2c # {}
    /\ mcall.status = "InvalidIndex"
    /\ mcall.invoked

\* The place of a counter in the order of counters of its base: the number
\* of counters below it, the shorter ones and those as long with a smaller
\* value.
Place(k) ==
    SumOfPowers(k.base, 1, counter_len(k) - 1) + Horner(Reverse(k.inv), k.base, 0)

\* The place of the counter of an endpoint.
PlaceOfString(m, value) ==
    SumOfPowers(map_len(m), 1, Len(value) - 1) + ToInteger(m, value)

\* C20: every iteration of a constructed range ends after finitely many
\* steps, on every map, the map of one symbol included. Each next() after
\* the first raises the place of the cursor by exactly one and leaves the
\* end counter alone, the generator yields only while the cursor is not
\* above the end counter and stops as soon as it is, so it has never yielded
\* more elements than there are places from start through end. A next()
\* that raises (an element the map cannot render) ends the iteration too.
C20_IterationTerminates ==
    /\ [](it.pc = "yielded" => Place(it.current) <= Place(it.end))
    /\ [](it.pc = "done" => Place(it.current) > Place(it.end))
    /\ [](it.pc \in {"yielded", "done"} =>
            Len(it.out) <=
                Max(0, Place(it.end) + 1 - PlaceOfString(rmap, rng.start)))
    /\ [](it.pc = "raised" => it.status # "ok")
    /\ [][(it.pc = "created" /\ it' # it) =>
            it'.pc \in {"yielded", "done", "raised"}]_vars
    /\ [][it.pc \in {"done", "raised"} => it' = it]_vars
    /\ [][(it.pc = "yielded" /\ it' # it) =>
            /\ it'.pc \in {"yielded", "done", "raised"}
            /\ it'.end = it.end
            /\ Place(it'.current) = Place(it.current) + 1]_vars

\* An iteration over the map of one symbol has ended after yielding strings
\* of at least two lengths.
C20_Witness ==
    /\ it.pc = "done"
    /\ map_len(rmap) = 1
    /\ Len(it.out) >= 2

(***************************************************************************)
(* Accepted ranges are non-empty                                           *)
(***************************************************************************)

\* C21: every range construction accepts is non-empty: len() returns at
\* least 1 and an exhausted iteration has yielded at least one element, on
\* every map, maps of several intervals listed against codepoint order
\* included.
C21_AcceptedRangeIsNonEmpty ==
    /\ lenres.called => lenres.value >= 1
    /\ it.pc = "done" => Len(it.out) >= 1

(***************************************************************************)
(* The two overlap detectors: one list of intervals is given to the        *)
(* constructor without lookup functions and with them, and intervals of    *)
(* the list are tested against each other with intersects().               *)
(***************************************************************************)

ConstructBoth ==
    /\ ovl.status = "none"
    /\ \E ivs \in IntervalLists :
          ovl' = [status    |-> "built",
                  intervals |-> ivs,
                  eager     |-> IndexMapInit(ivs, None, None),
                  lazy      |-> IndexMapInit(ivs, "ord", "chr")]
    /\ UNCHANGED <<old_vars, it2, race_vars, combine_vars, interval_vars, isect>>

Intersects ==
    /\ ovl.status = "built"
    /\ \E i, j \in DOMAIN ovl.intervals :
          isect' = [called |-> TRUE, i |-> i, j |-> j,
                    ab |-> interval_and(ovl.intervals[i], ovl.intervals[j]),
                    ba |-> interval_and(ovl.intervals[j], ovl.intervals[i])]
    /\ UNCHANGED <<old_vars, it2, race_vars, combine_vars, interval_vars, ovl>>

NextOverlap == ConstructBoth \/ Intersects

SpecOverlap == Init /\ [][NextOverlap]_vars

\* A symbol stands at two positions of the chained intervals.
InsertedTwice(ivs) ==
    \E p, q \in DOMAIN Chain(ivs) : p # q /\ Chain(ivs)[p] = Chain(ivs)[q]

\* Two intervals at different positions of the list have their later start
\* not after their earlier end.
GeometricPair(ivs) ==
    \E i, j \in DOMAIN ivs :
        /\ i # j
        /\ Max(ivs[i].start, ivs[j].start) <= Min(ivs[i].end, ivs[j].end)

\* C22: on every non-empty list of same-kind intervals the two detectors
\* agree: the construction without lookup functions raises
\* OverlappingIntervals exactly when a symbol would be inserted twice, the
\* construction with lookup functions exactly when two intervals of the
\* list have max(starts) <= min(ends), and the one raises exactly when the
\* other does. intersects() between two same-kind intervals is symmetric
\* and true exactly when they share a symbol.
C22_OverlapDetectorsAgree ==
    /\ ( /\ ovl.status = "built"
         /\ ovl.intervals # <<>>
         /\ intervals_must_have_same_type(ovl.intervals) ) =>
            /\ ovl.eager.status \in {"ok", "OverlappingIntervals"}
            /\ ovl.lazy.status \in {"ok", "OverlappingIntervals"}
            /\ ovl.eager.status = "OverlappingIntervals"
                  <=> InsertedTwice(ovl.intervals)
            /\ ovl.lazy.status = "OverlappingIntervals"
                  <=> GeometricPair(ovl.intervals)
            /\ ovl.eager.status = "OverlappingIntervals"
                  <=> ovl.lazy.status = "OverlappingIntervals"
    /\ ( /\ isect.called
         /\ ovl.intervals[isect.i].kind = ovl.intervals[isect.j].kind ) =>
            /\ isect.ab.status = "ok"
            /\ isect.ba.status = "ok"
            /\ isect.ab.value = isect.ba.value
            /\ isect.ab.value
                  <=> SymbolsOf(ovl.intervals[isect.i])
                          \cap SymbolsOf(ovl.intervals[isect.j]) # {}

\* Both constructions refused a list of two different intervals that share
\* exactly one symbol, and intersects() between the two returned True.
C22_Witness ==
    /\ ovl.status = "built"
    /\ ovl.eager.status = "OverlappingIntervals"
    /\ ovl.lazy.status = "OverlappingIntervals"
    /\ Len(ovl.intervals) = 2
    /\ ovl.intervals[1].end = ovl.intervals[2].start
    /\ ovl.intervals[1].start < ovl.intervals[2].start
    /\ isect.called
    /\ isect.i # isect.j
    /\ isect.ab.value

====
